---- MODULE Spec2Model ----
(***************************************************************************)
(* Model of app/main.py: the Book entity, the display / print / serialize  *)
(* strategies, the BookService orchestrator and the command runner main(). *)
(*                                                                         *)
(* A Python str is a sequence of one-character strings.  The console is    *)
(* the sequence of texts written by the calls of print(), each with the    *)
(* newline print() appends.                                                *)
(***************************************************************************)
EXTENDS Integers, Sequences, FiniteSets, TLC

VARIABLES book, commands, i, book_service, result, console, error, pc, ret, log

vars == <<book, commands, i, book_service, result, console, error, pc, ret, log>>

(***************************************************************************)
(* Bounds                                                                  *)
(***************************************************************************)
MaxCmds == 3
MaxOps == 3
MaxTitleLen == 1
MaxContentLen == 2

(***************************************************************************)
(* Python values                                                           *)
(***************************************************************************)
None == [tag |-> "None"]
Str(s) == [tag |-> "str", val |-> s]
NoReturn == [tag |-> "noreturn"]
NoSlot == "None"

\* The characters texts are drawn from: two ordinary letters, the XML
\* special characters, the JSON special characters and a carriage return.
Chars == {"a", "r", "&", "<", ">", "\"", "\\", "\r"}

StrsOfLen(n) == [1..n -> Chars]
StrsUpTo(n) == UNION {StrsOfLen(k) : k \in 0..n}

RECURSIVE Concat(_)
Concat(ss) == IF ss = <<>> THEN <<>> ELSE Head(ss) \o Concat(Tail(ss))

\* print(text): one console write, text followed by a newline
py_print(text) == text \o <<"\n">>

\* s[::-1]
py_reverse_forward(s) == [k \in 1..Len(s) |-> s[k]]
py_reverse(s) == [k \in 1..Len(s) |-> s[Len(s) + 1 - k]]

(***************************************************************************)
(* Book                                                                    *)
(***************************************************************************)
Book(title, content) == [title |-> title, content |-> content]

(***************************************************************************)
(* Display strategies                                                      *)
(***************************************************************************)
ConsoleDisplay(content) == py_print(content)

ReverseDisplay(content) == py_print(py_reverse(content))

(***************************************************************************)
(* Print strategies                                                        *)
(***************************************************************************)
ConsolePrintPrefix == <<"P", "r", "i", "n", "t", "i", "n", "g", " ", "t", "h", "e", " ", "b", "o", "o", "k", ":", " ">>
ReversePrintPrefix == <<"P", "r", "i", "n", "t", "i", "n", "g", " ", "t", "h", "e", " ", "b", "o", "o", "k", " ", "i", "n", " ", "r", "e", "v", "e", "r", "s", "e", ":", " ">>
ReversePrintSep == <<".", ".", ".", "\n">>

ConsolePrint(title, content) == py_print(ConsolePrintPrefix \o title \o <<"\n">> \o content)

ReversePrint(title, content) == py_print(ReversePrintPrefix \o title \o ReversePrintSep \o py_reverse(content))

(***************************************************************************)
(* Serializer strategies                                                   *)
(***************************************************************************)
KeyTitle == <<"t", "i", "t", "l", "e">>
KeyContent == <<"c", "o", "n", "t", "e", "n", "t">>
TagBook == <<"b", "o", "o", "k">>

\* json.dumps of a str (ensure_ascii): quote and backslash get a backslash,
\* control characters their short escape, printable ASCII is kept
json_escape_char_noquote(c) == IF c = "\\" THEN <<"\\", "\\">> ELSE <<c>>
json_escape_char(c) ==
  CASE c = "\"" -> <<"\\", "\"">>
    [] c = "\\" -> <<"\\", "\\">>
    [] c = "\r" -> <<"\\", "r">>
    [] c = "\n" -> <<"\\", "n">>
    [] OTHER -> <<c>>

json_encode_str(s) ==
  <<"\"">> \o Concat([k \in 1..Len(s) |-> json_escape_char(s[k])]) \o <<"\"">>

\* json.dumps of a dict with str keys and values, given as its items in
\* insertion order: "{" + ", ".join(key + ": " + value) + "}"
json_item(kv) == json_encode_str(kv[1]) \o <<":", " ">> \o json_encode_str(kv[2])

json_dumps(items) ==
  <<"{">>
  \o Concat([k \in 1..Len(items) |->
               IF k = 1 THEN json_item(items[k]) ELSE <<",", " ">> \o json_item(items[k])])
  \o <<"}">>

JsonSerialize(b) == json_dumps(<<<<KeyTitle, b.title>>, <<KeyContent, b.content>>>>)

\* xml.etree.ElementTree: text of an element is escaped by _escape_cdata
xml_escape_char(c) ==
  CASE c = "&" -> <<"&", "a", "m", "p", ";">>
    [] c = "<" -> <<"&", "l", "t", ";">>
    [] c = ">" -> <<"&", "g", "t", ";">>
    [] OTHER -> <<c>>

xml_escape_cdata(text) == Concat([k \in 1..Len(text) |-> xml_escape_char(text[k])])

\* ET.Element / ET.SubElement: a tag, a text and the children in order
Element(tag, text, children) == [tag |-> tag, text |-> text, children |-> children]

\* ET.tostring(root, encoding="unicode"): an element without text and without
\* children is written as the empty-element tag "<tag />"
RECURSIVE ET_tostring(_)
ET_tostring(elem) ==
  IF elem.text # <<>> \/ elem.children # <<>>
  THEN <<"<">> \o elem.tag \o <<">">>
       \o xml_escape_cdata(elem.text)
       \o Concat([k \in 1..Len(elem.children) |-> ET_tostring(elem.children[k])])
       \o <<"<", "/">> \o elem.tag \o <<">">>
  ELSE <<"<">> \o elem.tag \o <<" ", "/", ">">>

XMLSerializer(b) ==
  ET_tostring(Element(TagBook, <<>>,
                      << Element(KeyTitle, b.title, <<>>),
                         Element(KeyContent, b.content, <<>>) >>))

(***************************************************************************)
(* BookService                                                             *)
(***************************************************************************)
DisplayStrategies == {"ConsoleDisplay", "ReverseDisplay"}
PrintStrategies == {"ConsolePrint", "ReversePrint"}
SerializerStrategies == {"JsonSerialize", "XMLSerializer"}

\* the method a strategy object dispatches to
strategy_display(strategy, content) ==
  IF strategy = "ConsoleDisplay" THEN ConsoleDisplay(content) ELSE ReverseDisplay(content)

strategy_print_book(strategy, title, content) ==
  IF strategy = "ConsolePrint" THEN ConsolePrint(title, content) ELSE ReversePrint(title, content)

strategy_serialize(strategy, b) ==
  IF strategy = "JsonSerialize" THEN JsonSerialize(b) ELSE XMLSerializer(b)

\* BookService.__init__
BookService ==
  [display_strategy |-> NoSlot, print_strategy |-> NoSlot, serializer_strategy |-> NoSlot]

set_display_strategy_once(svc, strategy) ==
  IF svc.display_strategy = NoSlot THEN [svc EXCEPT !.display_strategy = strategy] ELSE svc
set_display_strategy(svc, strategy) == [svc EXCEPT !.display_strategy = strategy]

set_print_strategy_both(svc, strategy) ==
  [svc EXCEPT !.print_strategy = strategy, !.display_strategy = NoSlot]
set_print_strategy(svc, strategy) == [svc EXCEPT !.print_strategy = strategy]

set_serializer_strategy(svc, strategy) == [svc EXCEPT !.serializer_strategy = strategy]

\* BookService.display: the console writes it makes (none when the slot is unset)
display(svc, b) ==
  IF svc.display_strategy # NoSlot
  THEN <<strategy_display(svc.display_strategy, b.content)>>
  ELSE <<>>

\* BookService.print_book: the console writes it makes
print_book(svc, b) ==
  IF svc.print_strategy # NoSlot
  THEN <<strategy_print_book(svc.print_strategy, b.title, b.content)>>
  ELSE <<>>

\* BookService.serialize: the value it returns
serialize_nodefault(svc, b) ==
  IF svc.serializer_strategy # NoSlot
  THEN Str(strategy_serialize(svc.serializer_strategy, b))
  ELSE None
serialize(svc, b) ==
  IF svc.serializer_strategy # NoSlot
  THEN Str(strategy_serialize(svc.serializer_strategy, b))
  ELSE Str(<<>>)

(***************************************************************************)
(* main(book, commands)                                                    *)
(***************************************************************************)
display_strategies == [console |-> "ConsoleDisplay", reverse |-> "ReverseDisplay"]
print_strategies == [console |-> "ConsolePrint", reverse |-> "ReversePrint"]
serialize_strategies == [json |-> "JsonSerialize", xml |-> "XMLSerializer"]

CommandNames == {"display", "print", "serialize", "unknown"}
MethodTypes == {"console", "reverse", "json", "xml", "bogus"}
Pairs == CommandNames \X MethodTypes
CommandLists == UNION {[1..n -> Pairs] : n \in 0..MaxCmds}

SampleBooks == {Book(<<"a">>, <<"a", "&">>), Book(<<"<">>, <<"\"", "\r">>)}

cmd == commands[i][1]
method_type == commands[i][2]

IsDisplay(c) == c[1] = "display" /\ c[2] \in DOMAIN display_strategies
IsPrint(c) == c[1] = "print" /\ c[2] \in DOMAIN print_strategies
IsSerialize(c) == c[1] = "serialize" /\ c[2] \in DOMAIN serialize_strategies

InitMain ==
  /\ book \in SampleBooks
  /\ commands \in CommandLists
  /\ i = 1
  /\ book_service = BookService
  /\ result = None
  /\ console = <<>>
  /\ error = None
  /\ pc = "loop"
  /\ ret = NoReturn
  /\ log = <<>>

\* if cmd == "display" and method_type in display_strategies
MainDisplay ==
  /\ pc = "loop" /\ i <= Len(commands)
  /\ IsDisplay(commands[i])
  /\ book_service' = set_display_strategy(book_service, display_strategies[method_type])
  /\ console' = console \o display(book_service', book)
  /\ i' = i + 1
  /\ UNCHANGED <<book, commands, result, error, pc, ret, log>>

\* elif cmd == "print" and method_type in print_strategies
MainPrint_calls_display ==
  /\ pc = "loop" /\ i <= Len(commands)
  /\ ~IsDisplay(commands[i]) /\ IsPrint(commands[i])
  /\ book_service' = set_print_strategy(book_service, print_strategies[method_type])
  /\ console' = console \o display(book_service', book)
  /\ i' = i + 1
  /\ UNCHANGED <<book, commands, result, error, pc, ret, log>>
MainPrint ==
  /\ pc = "loop" /\ i <= Len(commands)
  /\ ~IsDisplay(commands[i]) /\ IsPrint(commands[i])
  /\ book_service' = set_print_strategy(book_service, print_strategies[method_type])
  /\ console' = console \o print_book(book_service', book)
  /\ i' = i + 1
  /\ UNCHANGED <<book, commands, result, error, pc, ret, log>>

\* elif cmd == "serialize" and method_type in serialize_strategies
MainSerialize_keepfirst ==
  /\ pc = "loop" /\ i <= Len(commands)
  /\ ~IsDisplay(commands[i]) /\ ~IsPrint(commands[i]) /\ IsSerialize(commands[i])
  /\ book_service' = set_serializer_strategy(book_service, serialize_strategies[method_type])
  /\ result' = IF result = None THEN serialize(book_service', book) ELSE result
  /\ i' = i + 1
  /\ UNCHANGED <<book, commands, console, error, pc, ret, log>>
MainSerialize ==
  /\ pc = "loop" /\ i <= Len(commands)
  /\ ~IsDisplay(commands[i]) /\ ~IsPrint(commands[i]) /\ IsSerialize(commands[i])
  /\ book_service' = set_serializer_strategy(book_service, serialize_strategies[method_type])
  /\ result' = serialize(book_service', book)
  /\ i' = i + 1
  /\ UNCHANGED <<book, commands, console, error, pc, ret, log>>

\* else: raise ValueError(... cmd ... method_type ...)
MainRaise_skip ==
  /\ pc = "loop" /\ i <= Len(commands)
  /\ ~IsDisplay(commands[i]) /\ ~IsPrint(commands[i]) /\ ~IsSerialize(commands[i])
  /\ i' = i + 1
  /\ UNCHANGED <<book, commands, book_service, result, console, error, pc, ret, log>>
MainRaise_partial ==
  /\ pc = "loop" /\ i <= Len(commands)
  /\ ~IsDisplay(commands[i]) /\ ~IsPrint(commands[i]) /\ ~IsSerialize(commands[i])
  /\ error' = [type |-> "ValueError", cmd |-> cmd, method_type |-> method_type]
  /\ pc' = "raised"
  /\ ret' = result
  /\ UNCHANGED <<book, commands, i, book_service, result, console, log>>
MainRaise ==
  /\ pc = "loop" /\ i <= Len(commands)
  /\ ~IsDisplay(commands[i]) /\ ~IsPrint(commands[i]) /\ ~IsSerialize(commands[i])
  /\ error' = [type |-> "ValueError", cmd |-> cmd, method_type |-> method_type]
  /\ pc' = "raised"
  /\ UNCHANGED <<book, commands, i, book_service, result, console, ret, log>>

\* return result
MainReturn ==
  /\ pc = "loop" /\ i > Len(commands)
  /\ ret' = result
  /\ pc' = "returned"
  /\ UNCHANGED <<book, commands, i, book_service, result, console, error, log>>

Next == MainDisplay \/ MainPrint \/ MainSerialize \/ MainRaise \/ MainReturn

Spec == InitMain /\ [][Next]_vars

(***************************************************************************)
(* BookService driven directly: any sequence of set and invoke calls       *)
(***************************************************************************)
InitService ==
  /\ book \in SampleBooks
  /\ commands = <<>>
  /\ i = 1
  /\ book_service = BookService
  /\ result = None
  /\ console = <<>>
  /\ error = None
  /\ pc = "service"
  /\ ret = NoReturn
  /\ log = <<>>

Call(op, arg) == [op |-> op, arg |-> arg]

CanCall == pc = "service" /\ Len(log) < MaxOps

SetDisplayStrategy ==
  \E strategy \in DisplayStrategies :
    /\ CanCall
    /\ book_service' = set_display_strategy(book_service, strategy)
    /\ log' = Append(log, Call("set_display_strategy", strategy))
    /\ UNCHANGED <<book, commands, i, result, console, error, pc, ret>>

SetPrintStrategy ==
  \E strategy \in PrintStrategies :
    /\ CanCall
    /\ book_service' = set_print_strategy(book_service, strategy)
    /\ log' = Append(log, Call("set_print_strategy", strategy))
    /\ UNCHANGED <<book, commands, i, result, console, error, pc, ret>>

SetSerializerStrategy ==
  \E strategy \in SerializerStrategies :
    /\ CanCall
    /\ book_service' = set_serializer_strategy(book_service, strategy)
    /\ log' = Append(log, Call("set_serializer_strategy", strategy))
    /\ UNCHANGED <<book, commands, i, result, console, error, pc, ret>>

CallDisplay ==
  /\ CanCall
  /\ console' = console \o display(book_service, book)
  /\ ret' = None
  /\ log' = Append(log, Call("display", NoSlot))
  /\ UNCHANGED <<book, commands, i, book_service, result, error, pc>>

CallPrintBook ==
  /\ CanCall
  /\ console' = console \o print_book(book_service, book)
  /\ ret' = None
  /\ log' = Append(log, Call("print_book", NoSlot))
  /\ UNCHANGED <<book, commands, i, book_service, result, error, pc>>

CallSerialize ==
  /\ CanCall
  /\ ret' = serialize(book_service, book)
  /\ log' = Append(log, Call("serialize", NoSlot))
  /\ UNCHANGED <<book, commands, i, book_service, result, console, error, pc>>

NextService ==
  \/ SetDisplayStrategy \/ SetPrintStrategy \/ SetSerializerStrategy
  \/ CallDisplay \/ CallPrintBook \/ CallSerialize

SpecService == InitService /\ [][NextService]_vars

(***************************************************************************)
(* The strategies applied to every book over the bounded texts             *)
(***************************************************************************)
Books == {Book(t, c) : t \in StrsUpTo(MaxTitleLen), c \in StrsUpTo(MaxContentLen)}

InitPure ==
  /\ book \in Books
  /\ commands = <<>>
  /\ i = 1
  /\ book_service = BookService
  /\ result = None
  /\ console = <<>>
  /\ error = None
  /\ pc = "input"
  /\ ret = NoReturn
  /\ log = <<>>

ApplyJsonSerialize ==
  /\ pc = "input"
  /\ ret' = Str(JsonSerialize(book))
  /\ pc' = "JsonSerialize"
  /\ UNCHANGED <<book, commands, i, book_service, result, console, error, log>>

ApplyXMLSerializer ==
  /\ pc = "input"
  /\ ret' = Str(XMLSerializer(book))
  /\ pc' = "XMLSerializer"
  /\ UNCHANGED <<book, commands, i, book_service, result, console, error, log>>

ApplyReverseDisplay ==
  /\ pc = "input"
  /\ console' = <<ReverseDisplay(book.content)>>
  /\ ret' = None
  /\ pc' = "ReverseDisplay"
  /\ UNCHANGED <<book, commands, i, book_service, result, error, log>>

ApplyReversePrint ==
  /\ pc = "input"
  /\ console' = <<ReversePrint(book.title, book.content)>>
  /\ ret' = None
  /\ pc' = "ReversePrint"
  /\ UNCHANGED <<book, commands, i, book_service, result, error, log>>

NextPure ==
  ApplyJsonSerialize \/ ApplyXMLSerializer \/ ApplyReverseDisplay \/ ApplyReversePrint

SpecPure == InitPure /\ [][NextPure]_vars

(***************************************************************************)
(* Reading serialized text back: a JSON reader and an XML reader, used by  *)
(* the round-trip properties                                               *)
(***************************************************************************)
ParseFail == [ok |-> FALSE]

At(t, p) == IF p >= 1 /\ p <= Len(t) THEN t[p] ELSE "EOF"

StartsWith(t, p, lit) == p + Len(lit) - 1 <= Len(t) /\ SubSeq(t, p, p + Len(lit) - 1) = lit

RECURSIVE SkipWs(_, _)
SkipWs(t, p) == IF At(t, p) = " " THEN SkipWs(t, p + 1) ELSE p

\* a JSON string whose opening quote is at p - 1: the decoded value and the
\* position after the closing quote
RECURSIVE JsonChars(_, _, _)
JsonChars(t, p, acc) ==
  LET c == At(t, p)
      e == At(t, p + 1)
  IN  CASE c = "EOF" -> ParseFail
        [] c = "\"" -> [ok |-> TRUE, val |-> acc, next |-> p + 1]
        [] c \in {"\r", "\n"} -> ParseFail
        [] c = "\\" ->
             CASE e \in {"\"", "\\", "/"} -> JsonChars(t, p + 2, Append(acc, e))
               [] e = "r" -> JsonChars(t, p + 2, Append(acc, "\r"))
               [] e = "n" -> JsonChars(t, p + 2, Append(acc, "\n"))
               [] OTHER -> ParseFail
        [] OTHER -> JsonChars(t, p + 1, Append(acc, c))

JsonString(t, p) == IF At(t, p) = "\"" THEN JsonChars(t, p + 1, <<>>) ELSE ParseFail

\* the members of a JSON object, in textual order, from the first key at p
RECURSIVE JsonMembers(_, _, _)
JsonMembers(t, p, items) ==
  LET k == JsonString(t, p) IN
  IF ~k.ok THEN ParseFail ELSE
  LET q == SkipWs(t, k.next) IN
  IF At(t, q) # ":" THEN ParseFail ELSE
  LET v == JsonString(t, SkipWs(t, q + 1)) IN
  IF ~v.ok THEN ParseFail ELSE
  LET r == SkipWs(t, v.next)
      more == Append(items, <<k.val, v.val>>)
  IN  CASE At(t, r) = "," -> JsonMembers(t, SkipWs(t, r + 1), more)
        [] At(t, r) = "}" /\ r = Len(t) -> [ok |-> TRUE, items |-> more]
        [] OTHER -> ParseFail

json_loads(t) ==
  IF At(t, 1) # "{" THEN ParseFail
  ELSE IF At(t, SkipWs(t, 2)) = "}" /\ SkipWs(t, 2) = Len(t) THEN [ok |-> TRUE, items |-> <<>>]
  ELSE JsonMembers(t, SkipWs(t, 2), <<>>)

\* XML character data from p up to the next "<": entity references are
\* replaced and line ends are normalised (a carriage return, with a line feed
\* that follows it, is read as one line feed)
XmlEntities ==
  { <<<<"&", "a", "m", "p", ";">>, "&">>,
    <<<<"&", "l", "t", ";">>, "<">>,
    <<<<"&", "g", "t", ";">>, ">">>,
    <<<<"&", "q", "u", "o", "t", ";">>, "\"">>,
    <<<<"&", "a", "p", "o", "s", ";">>, "'">> }

RECURSIVE XmlText(_, _, _)
XmlText(t, p, acc) ==
  LET c == At(t, p) IN
  CASE c = "EOF" -> ParseFail
    [] c = "<" -> [ok |-> TRUE, val |-> acc, next |-> p]
    [] c = "&" ->
         IF \E ent \in XmlEntities : StartsWith(t, p, ent[1])
         THEN LET ent == CHOOSE x \in XmlEntities : StartsWith(t, p, x[1])
              IN  XmlText(t, p + Len(ent[1]), Append(acc, ent[2]))
         ELSE ParseFail
    [] c = "\r" -> XmlText(t, IF At(t, p + 1) = "\n" THEN p + 2 ELSE p + 1, Append(acc, "\n"))
    [] OTHER -> XmlText(t, p + 1, Append(acc, c))

\* the position after a tag name that starts at p
RECURSIVE XmlNameEnd(_, _)
XmlNameEnd(t, p) ==
  IF At(t, p) \in {"EOF", ">", " ", "/", "<", "&"} THEN p ELSE XmlNameEnd(t, p + 1)

\* an element whose "<" is at p: its tag, its text (empty for an element
\* without content) and its child elements
RECURSIVE XmlElement(_, _), XmlChildren(_, _, _)
XmlElement(t, p) ==
  IF At(t, p) # "<" THEN ParseFail ELSE
  LET e == XmlNameEnd(t, p + 1)
      tag == SubSeq(t, p + 1, e - 1)
      close == <<"<", "/">> \o tag \o <<">">>
  IN  IF tag = <<>> THEN ParseFail
      ELSE IF StartsWith(t, SkipWs(t, e), <<"/", ">">>)
      THEN [ok |-> TRUE, tag |-> tag, text |-> <<>>, children |-> <<>>,
            next |-> SkipWs(t, e) + 2]
      ELSE IF At(t, e) # ">" THEN ParseFail
      ELSE LET txt == XmlText(t, e + 1, <<>>) IN
           IF ~txt.ok THEN ParseFail ELSE
           LET kids == XmlChildren(t, txt.next, <<>>) IN
           IF ~kids.ok \/ ~StartsWith(t, kids.next, close) THEN ParseFail
           ELSE [ok |-> TRUE, tag |-> tag, text |-> txt.val, children |-> kids.val,
                 next |-> kids.next + Len(close)]

XmlChildren(t, p, acc) ==
  IF StartsWith(t, p, <<"<", "/">>) THEN [ok |-> TRUE, val |-> acc, next |-> p]
  ELSE LET kid == XmlElement(t, p) IN
       IF ~kid.ok THEN ParseFail
       ELSE XmlChildren(t, kid.next,
                        Append(acc, [tag |-> kid.tag, text |-> kid.text, children |-> kid.children]))

xml_fromstring(t) ==
  LET root == XmlElement(t, 1) IN
  IF root.ok /\ root.next = Len(t) + 1 THEN root ELSE ParseFail

\* the text of the first child of root with the given tag
HasChild(root, tag) == \E k \in 1..Len(root.children) : root.children[k].tag = tag
ChildText(root, tag) ==
  root.children[CHOOSE k \in 1..Len(root.children) :
                  /\ root.children[k].tag = tag
                  /\ \A j \in 1..(k - 1) : root.children[j].tag # tag].text

(***************************************************************************)
(* Properties of the strategies (checked under SpecPure)                   *)
(***************************************************************************)
\* the character-order reversal of a text, by recursion on the text
RECURSIVE Rev(_)
Rev(s) == IF s = <<>> THEN <<>> ELSE Rev(Tail(s)) \o <<Head(s)>>

\* C6: parsing the text the xml serializer returns as XML gives back a
\* <title> and a <content> whose texts are the book's title and content
C6_XmlRoundTrip ==
  pc = "XMLSerializer" =>
    LET root == xml_fromstring(ret.val) IN
    /\ root.ok
    /\ root.tag = TagBook
    /\ HasChild(root, KeyTitle) /\ ChildText(root, KeyTitle) = book.title
    /\ HasChild(root, KeyContent) /\ ChildText(root, KeyContent) = book.content

\* C7: the text the json serializer returns is a JSON object with the keys
\* title and content, in that textual order, whose values parse back to the
\* book's title and content
C7_JsonRoundTrip ==
  pc = "JsonSerialize" =>
    LET obj == json_loads(ret.val) IN
    /\ obj.ok
    /\ Len(obj.items) = 2
    /\ obj.items[1] = <<KeyTitle, book.title>>
    /\ obj.items[2] = <<KeyContent, book.content>>

C7_Witness ==
  /\ pc = "JsonSerialize"
  /\ book.title = <<"\r">>
  /\ book.content = <<"\\", "\"">>
  /\ json_loads(ret.val).ok

ValidPairs ==
  { <<"display", "console">>, <<"display", "reverse">>,
    <<"print", "console">>, <<"print", "reverse">>,
    <<"serialize", "json">>, <<"serialize", "xml">> }

InvalidAt == {k \in 1..Len(commands) : commands[k] \notin ValidPairs}

FirstInvalid == CHOOSE k \in InvalidAt : \A j \in InvalidAt : k <= j

\* the console write a valid command makes, by command and variant
WritesOf(c, b) ==
  CASE c = <<"display", "console">> -> <<b.content \o <<"\n">>>>
    [] c = <<"display", "reverse">> -> <<Rev(b.content) \o <<"\n">>>>
    [] c = <<"print", "console">> ->
         <<ConsolePrintPrefix \o b.title \o <<"\n">> \o b.content \o <<"\n">>>>
    [] c = <<"print", "reverse">> ->
         <<ReversePrintPrefix \o b.title \o <<".", ".", ".", "\n">> \o Rev(b.content) \o <<"\n">>>>
    [] OTHER -> <<>>

WritesOfAll(cs, b) == Concat([k \in 1..Len(cs) |-> WritesOf(cs[k], b)])

\* the slot of a family after the commands cs: the variant of its last command
LastOf(cs, name) == {k \in 1..Len(cs) : cs[k][1] = name /\ \A j \in (k + 1)..Len(cs) : cs[j][1] # name}

SlotAfter(cs, name, table) ==
  IF LastOf(cs, name) = {} THEN NoSlot
  ELSE table[cs[CHOOSE k \in LastOf(cs, name) : TRUE][2]]

SlotsAfter(cs) ==
  [display_strategy |-> SlotAfter(cs, "display", display_strategies),
   print_strategy |-> SlotAfter(cs, "print", print_strategies),
   serializer_strategy |-> SlotAfter(cs, "serialize", serialize_strategies)]

\* C1: with every pair valid main returns the output of the last serialize
\* command, by that command's variant, and None when there is none
C1_LastSerializeWins ==
  /\ InvalidAt = {} => pc # "raised"
  /\ pc = "returned" =>
       LET last == LastOf(commands, "serialize") IN
       IF last = {} THEN ret = None
       ELSE LET v == commands[CHOOSE k \in last : TRUE][2] IN
            ret = Str(IF v = "json" THEN JsonSerialize(book) ELSE XMLSerializer(book))

C1_Witness ==
  /\ pc = "returned"
  /\ commands = << <<"serialize", "xml">>, <<"display", "console">>, <<"serialize", "json">> >>
  /\ ret = Str(JsonSerialize(book))
  /\ ret # Str(XMLSerializer(book))

\* C2: main raises exactly when the list holds an invalid pair, and the error
\* carries the command and the variant of the first invalid pair
C2_InvalidCommand ==
  /\ pc = "returned" => InvalidAt = {}
  /\ InvalidAt # {} => i <= FirstInvalid
  /\ pc = "raised" =>
       /\ InvalidAt # {}
       /\ error # None
       /\ error.cmd = commands[FirstInvalid][1]
       /\ error.method_type = commands[FirstInvalid][2]
  /\ pc # "raised" => error = None

C2_Witness ==
  /\ pc = "raised"
  /\ commands = << <<"print", "reverse">>, <<"serialize", "console">>, <<"unknown", "bogus">> >>
  /\ error.cmd = "serialize" /\ error.method_type = "console"

\* C3: when main raises at the first invalid pair, the console holds the writes
\* of the commands before it and nothing else, the slots are as those commands
\* left them, and no value is returned
C3_StopAtInvalid ==
  pc = "raised" =>
    LET before == SubSeq(commands, 1, FirstInvalid - 1) IN
    /\ i = FirstInvalid
    /\ console = WritesOfAll(before, book)
    /\ book_service = SlotsAfter(before)
    /\ ret = NoReturn

C3_Witness ==
  /\ pc = "raised"
  /\ commands = << <<"serialize", "json">>, <<"display", "bogus">>, <<"print", "console">> >>
  /\ result = Str(JsonSerialize(book))
  /\ ret = NoReturn
  /\ console = <<>>

\* C5: the console holds, in order, one write for each display and print
\* command processed so far, in that command's variant, and none for serialize
C5_WritesInOrder ==
  LET done == SubSeq(commands, 1, i - 1) IN
  /\ console = WritesOfAll(done, book)
  /\ Len(console) = Cardinality({k \in 1..Len(done) : done[k][1] \in {"display", "print"}})

C5_Witness ==
  /\ pc = "returned"
  /\ commands = << <<"print", "reverse">>, <<"serialize", "xml">>, <<"display", "console">> >>
  /\ Len(console) = 2
  /\ console[2] = book.content \o <<"\n">>

\* one command run alone on a fresh BookService
RunAlone(c, b) ==
  CASE IsDisplay(c) ->
         [console |-> display(set_display_strategy(BookService, display_strategies[c[2]]), b),
          result |-> None]
    [] ~IsDisplay(c) /\ IsPrint(c) ->
         [console |-> print_book(set_print_strategy(BookService, print_strategies[c[2]]), b),
          result |-> None]
    [] OTHER ->
         [console |-> <<>>,
          result |-> serialize(set_serializer_strategy(BookService, serialize_strategies[c[2]]), b)]

C10_Step ==
  (pc = "loop" /\ i' = i + 1) =>
    LET c == commands[i]
        alone == RunAlone(c, book)
    IN  /\ console' = console \o alone.console
        /\ c[1] = "serialize" => result' = alone.result /\ result' # Str(<<>>)
        /\ c[1] # "serialize" => result' = result
        /\ c[1] = "display" => book_service'.display_strategy # NoSlot
        /\ c[1] = "print" => book_service'.print_strategy # NoSlot
        /\ c[1] = "serialize" => book_service'.serializer_strategy # NoSlot

\* C10: each command of a run has the effect it has when run alone on a fresh
\* BookService, whatever came before it; main never invokes a family whose
\* slot is unset and never returns the empty string
C10_HistoryIndependent == [][C10_Step]_vars /\ [](pc = "returned" => ret # Str(<<>>))

C10_Witness ==
  /\ i = 3
  /\ commands[1] = <<"display", "console">>
  /\ commands[2] = <<"display", "reverse">>
  /\ book.content # Rev(book.content)
  /\ console = <<book.content \o <<"\n">>, Rev(book.content) \o <<"\n">>>>

(***************************************************************************)
(* Properties of BookService (checked under SpecService)                   *)
(***************************************************************************)
LastCall == log[Len(log)]

C4_Step ==
  Len(log') = Len(log) + 1 =>
    LET op == log'[Len(log')].op IN
    /\ error' = None
    /\ op = "display" =>
         console' = IF book_service.display_strategy = NoSlot THEN console
                    ELSE IF book_service.display_strategy = "ConsoleDisplay"
                    THEN Append(console, ConsoleDisplay(book.content))
                    ELSE Append(console, ReverseDisplay(book.content))
    /\ op = "print_book" =>
         console' = IF book_service.print_strategy = NoSlot THEN console
                    ELSE IF book_service.print_strategy = "ConsolePrint"
                    THEN Append(console, ConsolePrint(book.title, book.content))
                    ELSE Append(console, ReversePrint(book.title, book.content))
    /\ op = "serialize" =>
         /\ console' = console
         /\ ret' = IF book_service.serializer_strategy = NoSlot THEN Str(<<>>)
                   ELSE IF book_service.serializer_strategy = "JsonSerialize"
                   THEN Str(JsonSerialize(book))
                   ELSE Str(XMLSerializer(book))

\* C4: invoking display or print with the slot unset writes nothing, invoking
\* serialize with the slot unset returns the empty string, none of them
\* fails, and with the slot set the call goes to the selected implementation
C4_InvokeUnsetOrDelegate == [][C4_Step]_vars

C4_Witness ==
  /\ Len(log) = 3
  /\ log[1].op = "set_display_strategy"
  /\ log[2].op = "display"
  /\ log[3].op = "serialize"
  /\ book_service.serializer_strategy = NoSlot
  /\ ret = Str(<<>>)
  /\ Len(console) = 1

\* the argument of the last call of op in the log, NoSlot when there is none
LastSet(op) ==
  LET at == {k \in 1..Len(log) : log[k].op = op /\ \A j \in (k + 1)..Len(log) : log[j].op # op}
  IN  IF at = {} THEN NoSlot ELSE log[CHOOSE k \in at : TRUE].arg

\* C9: each slot holds the implementation given by the most recent set for its
\* family, whatever was set for the other families and whatever was invoked,
\* and is unset when its family was never set
C9_LastSetWins ==
  /\ book_service.display_strategy = LastSet("set_display_strategy")
  /\ book_service.print_strategy = LastSet("set_print_strategy")
  /\ book_service.serializer_strategy = LastSet("set_serializer_strategy")

C9_Witness ==
  /\ Len(log) = 3
  /\ log[1] = Call("set_display_strategy", "ConsoleDisplay")
  /\ log[2] = Call("set_print_strategy", "ReversePrint")
  /\ log[3] = Call("set_display_strategy", "ReverseDisplay")
  /\ book_service.display_strategy = "ReverseDisplay"
  /\ book_service.print_strategy = "ReversePrint"
  /\ book_service.serializer_strategy = NoSlot

====
